---- MODULE Spec2Model ----
(***************************************************************************)
(* Boat_tracker: batch download of vessel tracks.                          *)
(*                                                                         *)
(* The model covers the two implementations of the per-vessel download     *)
(* task (download_task in app.py, download_vessel_track_data in            *)
(* download_api.py), the two fetch_vessel_track functions they call, and   *)
(* the batch loop main_logic of app.py.  Calendar dates are day numbers    *)
(* (integers); timedelta(days=n) is the integer n.                         *)
(***************************************************************************)
EXTENDS Integers, Sequences, FiniteSets, TLC

VARIABLES
    entry,          \* which entry point runs: "main_logic" or "download_vessel_track_data"
    raw_txt,        \* the text area: a sequence of lines
    api_key,        \* "" when missing
    start_d,        \* the shared date range
    end_d,
    pc,             \* position of the coroutine
    ids,            \* main_logic: the parsed identifier list
    i,              \* main_logic: index of the for loop (0-based, as enumerate)
    vessel_id,      \* the task's vessel_id argument
    current_start,  \* the task's loop variable
    all_success,    \* the task's accumulator
    res,            \* the value the task returned (read once pc is past the return)
    calls,          \* what the running task has awaited, in order: fetches and sleeps
    response,       \* the HTTP exchange of the latest fetch ("none": no request sent)
    exc,            \* an exception that escaped the task ("none" when there is none)
    dirs,           \* file system: the directories that exist
    disk,           \* file system: path -> content of every regular file
    invoked,        \* history: the identifiers download_task was called with, in order
    results,        \* history: what each of these calls returned, in order
    log_hist,       \* main_logic: the log lines
    success_files,  \* main_logic: paths of the merged files
    cooldowns,      \* main_logic: the cool-down waits done, in order
    archive         \* the entries of the zip handed to the download button (<< >>: no button)

vars == << entry, raw_txt, api_key, start_d, end_d, pc, ids, i, vessel_id,
           current_start, all_success, res, calls, response, exc, dirs, disk,
           invoked, results, log_hist, success_files, cooldowns, archive >>

inputs == << entry, raw_txt, api_key, start_d, end_d >>
taskVars == << current_start, all_success, res, calls, response, exc >>
fsVars == << dirs, disk >>
batchVars == << ids, i, invoked, results, log_hist, success_files, cooldowns, archive >>

----------------------------------------------------------------------------
(* Bounds of the model *)

\* SpecMerge: a vessel has at most MaxChunks chunk files
MaxChunks == 3
\* start_d ranges over 0..MaxStart
MaxStart == 0
\* end_d - start_d ranges over the values around k * (MaxSpan + 1), k <= MaxFull
MaxFull == 2
\* the text area holds at most MaxLines lines
MaxLines == 2

(* Program constants *)

\* timedelta(days=180), the longest window
MaxSpan == 180
\* asyncio.sleep(1) between the windows of download_task
AppPacing == 1
\* asyncio.sleep(60) between the windows of download_vessel_track_data
ApiPacing == 60
\* st.number_input defaults of the two cool-downs
success_wait == 60
fail_wait == 20

----------------------------------------------------------------------------
(* Inputs *)

\* A 9-character identifier (MMSI), a 7-character one (IMO), and one of
\* neither length.
Identifiers == {"416000000", "9123456", "12345"}

\* A line of the text area: its text without the surrounding white space, and
\* the number of white-space characters around it.
Lines ==
    { [text |-> "416000000", pad |-> 0],
      [text |-> "9123456", pad |-> 2],
      [text |-> "12345", pad |-> 0],
      [text |-> "", pad |-> 1] }

RECURSIVE SeqsUpTo(_, _)
SeqsUpTo(S, n) ==
    IF n = 0 THEN {<< >>}
    ELSE LET shorter == SeqsUpTo(S, n - 1)
         IN  shorter \cup {Append(s, x) : s \in {t \in shorter : Len(t) = n - 1}, x \in S}

RawTexts == SeqsUpTo(Lines, MaxLines)

\* end_d - start_d: the values around each multiple of MaxSpan + 1, so that
\* start > end, start = end, a span of exactly MaxSpan, and a last window of
\* one or two days all occur.
Offsets == {k * (MaxSpan + 1) + j : k \in 0..MaxFull, j \in (-2)..1}

\* What the remote API answers to one request: an HTTP status, or no answer
\* at all (a transport error).
Responses ==
    { [error |-> "none", status_code |-> 200],
      [error |-> "none", status_code |-> 404],
      [error |-> "ConnectError", status_code |-> 0] }

\* No request was sent.
NoResponse == [error |-> "not_sent", status_code |-> 0]

\* The body of a 200 answer: a header row and one data row naming the window.
ResponseContent(vid, from_date, to_date) ==
    << <<"MMSI", "TIMESTAMP">>, <<vid, ToString(from_date), ToString(to_date)>> >>

----------------------------------------------------------------------------
(* File system *)

temp_root == "temp_download"

Write(d, path, content) ==
    [p \in DOMAIN d \cup {path} |-> IF p = path THEN content ELSE d[p]]

\* os.makedirs(path, exist_ok=True): the directory and its parent
Makedirs(ds, output_dir) == ds \cup {temp_root, output_dir}

\* shutil.rmtree(output_dir): the directory and every file in it
RmtreeDirs(ds, output_dir) == ds \ {output_dir}
RmtreeDisk(d, output_dir) ==
    [p \in {q \in DOMAIN d : q.dir # output_dir} |-> d[p]]

Listdir(d, target_dir) == {p.name : p \in {q \in DOMAIN d : q.dir = target_dir}}

get_output_dir_path(vid, temp_dir) == temp_dir \o "/vessel_" \o vid

\* Left over from an earlier run of the script: the directory of one vessel,
\* holding a chunk of a window that this run does not ask for.  The other
\* vessels have no directory yet.
StaleVessel == "416000000"
StaleName ==
    [prefix |-> "track", vessel_id |-> StaleVessel, from_date |-> -9, to_date |-> -8,
     ext |-> "csv"]
StaleDirs == {temp_root, get_output_dir_path(StaleVessel, temp_root)}
StaleDisk ==
    [p \in {[dir |-> get_output_dir_path(StaleVessel, temp_root), name |-> StaleName]}
        |-> << <<"MMSI", "TIMESTAMP">>, <<"stale", "row">> >>]

----------------------------------------------------------------------------
(* fetch_vessel_track: one request for one window *)

\* The exception the body of the try block raises for an answer: client.get
\* raises on a transport error, raise_for_status on an error status.
Raised(resp) ==
    IF resp.error # "none" THEN "TransportError"
    ELSE IF resp.status_code >= 400 THEN "HTTPStatusError"
    ELSE "none"

\* A narrower handler, except httpx.HTTPStatusError: a transport error escapes.
ExceptException_StatusOnly(e) == e = "HTTPStatusError"

\* except Exception: both exceptions are subclasses of Exception.
ExceptException(e) == e \in {"TransportError", "HTTPStatusError"}

\* The outcome of one call: the value returned, whether a request went out
\* and under which parameter name, the file system afterwards, and the
\* exception that escaped the call.
FetchResult(ret, sent, id_param, ds, d, escaped) ==
    [ret |-> ret, sent |-> sent, id_param |-> id_param, dirs |-> ds, disk |-> d,
     escaped |-> escaped]

app_id_param(vid) == IF Len(vid) = 9 THEN "MMSI" ELSE "imo"

app_filename(vid, from_date, to_date) ==
    [prefix |-> "track", vessel_id |-> vid, from_date |-> from_date,
     to_date |-> to_date, ext |-> "csv"]

\* A failed fetch that clears the directory of the chunks written so far
app_fetch_vessel_track_CleanOnFailure(vid, from_date, to_date, output_dir, resp, ds, d) ==
    IF Raised(resp) = "none"
    THEN FetchResult(TRUE, TRUE, app_id_param(vid), Makedirs(ds, output_dir),
             Write(d, [dir |-> output_dir, name |-> app_filename(vid, from_date, to_date)],
                   ResponseContent(vid, from_date, to_date)),
             "none")
    ELSE FetchResult(FALSE, TRUE, app_id_param(vid), ds, RmtreeDisk(d, output_dir), "none")

app_fetch_vessel_track(vid, from_date, to_date, output_dir, resp, ds, d) ==
    LET id_param == app_id_param(vid)
        e == Raised(resp)
    IN  IF e = "none"
        THEN FetchResult(TRUE, TRUE, id_param, Makedirs(ds, output_dir),
                 Write(d, [dir |-> output_dir, name |-> app_filename(vid, from_date, to_date)],
                       ResponseContent(vid, from_date, to_date)),
                 "none")
        ELSE IF ExceptException(e)
        THEN FetchResult(FALSE, TRUE, id_param, ds, d, "none")
        ELSE FetchResult(FALSE, TRUE, id_param, ds, d, e)

api_id_param(vid) ==
    IF Len(vid) = 9 THEN "MMSI" ELSE IF Len(vid) = 7 THEN "imo" ELSE "invalid"

api_filename(vid, from_date, to_date) ==
    [prefix |-> "vessel_track", vessel_id |-> vid, from_date |-> from_date,
     to_date |-> to_date, ext |-> "csv"]

api_fetch_vessel_track(vid, from_date, to_date, output_dir, resp, ds, d) ==
    LET id_param == api_id_param(vid)
        e == Raised(resp)
    IN  IF id_param = "invalid"
        THEN FetchResult(FALSE, FALSE, id_param, ds, d, "none")
        ELSE IF e = "none"
        THEN FetchResult(TRUE, TRUE, id_param, Makedirs(ds, output_dir),
                 Write(d, [dir |-> output_dir, name |-> api_filename(vid, from_date, to_date)],
                       ResponseContent(vid, from_date, to_date)),
                 "none")
        ELSE IF ExceptException(e)
        THEN FetchResult(FALSE, TRUE, id_param, ds, d, "none")
        ELSE FetchResult(FALSE, TRUE, id_param, ds, d, e)

\* The entries a task appends to calls.
FetchCall(vid, from_date, to_date, f) ==
    [op |-> "fetch", vessel_id |-> vid, from_date |-> from_date, to_date |-> to_date,
     id_param |-> f.id_param, sent |-> f.sent, ret |-> f.ret]
SleepCall(secs) == [op |-> "sleep", secs |-> secs]

----------------------------------------------------------------------------
(* The date arithmetic of the two window loops *)

\* A window one day short: timedelta(days=179)
CurrentEnd_DayShort(cs, end_date) ==
    IF cs + MaxSpan - 1 > end_date THEN end_date ELSE cs + MaxSpan - 1

\* current_end = current_start + timedelta(days=180), cut at end_date
CurrentEnd(cs, end_date) ==
    IF cs + MaxSpan > end_date THEN end_date ELSE cs + MaxSpan

\* The next window starting on the last day of this one: the + 1 day left out
NextStart_SameDay(ce) == ce

\* current_start = current_end + timedelta(days=1)
NextStart(ce) == ce + 1

\* A loop that stops at the first failed window
LoopGuard_StopOnFailure(cs, end_date) == cs < end_date /\ all_success

\* while current_start < end_date
LoopGuard(cs, end_date) == cs < end_date

\* An unconditional pause after every window
SleepGuard_Always(cs, end_date) == TRUE

\* if current_start < end_date: await asyncio.sleep(...)
SleepGuard(cs, end_date) == cs < end_date

\* A direct fetch for one day more than the longest window
FetchesDirectly_DayMore(days) == days <= MaxSpan + 1

\* if days <= 180: one fetch of the whole range, no loop
FetchesDirectly(days) == days <= MaxSpan

\* validate_dates: "起迄日不合法" for start after end, else ("正確", days)
validate_dates(start_date, end_date) ==
    IF start_date > end_date
    THEN [ok |-> FALSE, days |-> 0]
    ELSE [ok |-> TRUE, days |-> end_date - start_date]

----------------------------------------------------------------------------
(* The merge of main_logic *)

\* Order of two chunk file names of one directory as strings: the prefix
\* first ("track_..." sorts before "vessel_track_..."), then the ISO dates.
NameLess(a, b) ==
    \/ a.prefix = "track" /\ b.prefix = "vessel_track"
    \/ a.prefix = b.prefix /\ a.from_date < b.from_date
    \/ a.prefix = b.prefix /\ a.from_date = b.from_date /\ a.to_date < b.to_date

\* sorted(os.listdir(target_dir))
RECURSIVE Sorted(_)
Sorted(names) ==
    IF names = {} THEN << >>
    ELSE LET first == CHOOSE n \in names : \A m \in names \ {n} : NameLess(n, m)
         IN  <<first>> \o Sorted(names \ {first})

\* The loop over the chunk files: header is << >> while it is None (or an
\* empty row, which "not header" treats alike); a file with no row at all
\* raises StopIteration at next(reader) and is passed over.
RECURSIVE MergeRows(_, _, _, _)
MergeRows(files, d, header, combined) ==
    IF files = << >> THEN [header |-> header, combined |-> combined]
    ELSE LET rows == d[Head(files)]
         IN  IF Head(files).name.ext # "csv" \/ rows = << >>
             THEN MergeRows(Tail(files), d, header, combined)
             ELSE MergeRows(Tail(files), d,
                            IF header = << >> THEN Head(rows) ELSE header,
                            combined \o Tail(rows))

final_path(vid) ==
    [dir |-> temp_root,
     name |-> [prefix |-> "", vessel_id |-> vid, from_date |-> 0, to_date |-> 0, ext |-> "csv"]]

\* The content of the merged file: the header row, if any, then the rows.
Combined(target_dir, d) ==
    LET files == [k \in 1..Cardinality(Listdir(d, target_dir)) |->
                    [dir |-> target_dir, name |-> Sorted(Listdir(d, target_dir))[k]]]
        m == MergeRows(files, d, << >>, << >>)
    IN  (IF m.header # << >> THEN <<m.header>> ELSE << >>) \o m.combined

\* A log line of log_hist
LogLine(vid, ok) == [vessel_id |-> vid, ok |-> ok]

\* No filter: a blank line becomes an empty identifier
RECURSIVE ParseIds_KeepBlank(_)
ParseIds_KeepBlank(raw) ==
    IF raw = << >> THEN << >>
    ELSE <<Head(raw).text>> \o ParseIds_KeepBlank(Tail(raw))

\* ids = [x.strip() for x in raw_txt.split('\n') if x.strip()]
RECURSIVE ParseIds(_)
ParseIds(raw) ==
    IF raw = << >> THEN << >>
    ELSE IF Head(raw).text # ""
         THEN <<Head(raw).text>> \o ParseIds(Tail(raw))
         ELSE ParseIds(Tail(raw))

\* log_hist.append(line): the oldest line first
LogInsert_Append(log, line) == Append(log, line)

\* log_hist.insert(0, line): the newest line first
LogInsert(log, line) == <<line>> \o log

\* all_success = success: the last window decides
Aggregate_LastWins(acc, success) == success

\* if not success: all_success = False
Aggregate(acc, success) == IF ~success THEN FALSE ELSE acc

\* if os.path.exists(output_dir): shutil.rmtree(output_dir), then
\* os.makedirs(output_dir, exist_ok=True)
ClearedDirs(ds, output_dir) == Makedirs(RmtreeDirs(ds, output_dir), output_dir)
\* No rmtree: the files of an earlier run stay
ClearedDisk_Keep(ds, d, output_dir) == d

ClearedDisk(ds, d, output_dir) ==
    IF output_dir \in ds THEN RmtreeDisk(d, output_dir) ELSE d

\* The merge done whatever download_task returned
Merges_Always(r, target_dir, ds) == target_dir \in ds

\* if res: ... if os.path.exists(target_dir): merge and append to success_files
Merges(r, target_dir, ds) == r /\ target_dir \in ds

\* The same wait after a failure as after a success
Wait_SuccessOnly(r) == success_wait

\* wait = success_wait after a success, fail_wait after a failure
Wait(r) == IF r THEN success_wait ELSE fail_wait

\* A cool-down after the last identifier too
CoolsDown_AfterLast(idx, list) == idx < Len(list)

\* if i < len(ids)-1: the cool-down loop
CoolsDown(idx, list) == idx < Len(list) - 1

\* A batch that stops at the first failed vessel
MoreIds_StopOnFailure(idx, list) == idx + 1 < Len(list) /\ res

\* for i, vid in enumerate(ids): another identifier follows
MoreIds(idx, list) == idx + 1 < Len(list)

----------------------------------------------------------------------------
(* Initial state: the form is filled in, or the task is about to be called *)

Init ==
    /\ entry \in {"main_logic", "download_vessel_track_data"}
    /\ start_d \in 0..MaxStart
    /\ end_d \in {start_d + o : o \in Offsets}
    /\ dirs = StaleDirs
    /\ disk = StaleDisk
    /\ IF entry = "main_logic"
       THEN /\ raw_txt \in RawTexts
            /\ api_key \in {"", "KEY"}
            /\ vessel_id = ""
            /\ pc = "start"
       ELSE /\ raw_txt = << >>
            /\ api_key = "KEY"
            /\ vessel_id \in Identifiers
            /\ pc = "call"
    /\ ids = << >>
    /\ i = 0
    /\ current_start = start_d
    /\ all_success = TRUE
    /\ res = FALSE
    /\ calls = << >>
    /\ response = NoResponse
    /\ exc = "none"
    /\ invoked = << >>
    /\ results = << >>
    /\ log_hist = << >>
    /\ success_files = << >>
    /\ cooldowns = << >>
    /\ archive = << >>

----------------------------------------------------------------------------
(* download_task of app.py *)

DownloadTaskEnter ==
    /\ pc = "call" /\ entry = "main_logic"
    /\ LET output_dir == get_output_dir_path(vessel_id, temp_root)
       IN  /\ dirs' = ClearedDirs(dirs, output_dir)
           /\ disk' = ClearedDisk(dirs, disk, output_dir)
    /\ current_start' = start_d
    /\ all_success' = TRUE
    /\ calls' = << >>
    /\ response' = NoResponse
    /\ invoked' = Append(invoked, vessel_id)
    /\ pc' = "loop"
    /\ UNCHANGED << inputs, ids, i, vessel_id, res, exc, results, log_hist,
                    success_files, cooldowns, archive >>

DownloadTaskIter ==
    /\ pc = "loop" /\ entry = "main_logic"
    /\ LoopGuard(current_start, end_d)
    /\ \E resp \in Responses :
          LET output_dir == get_output_dir_path(vessel_id, temp_root)
              current_end == CurrentEnd(current_start, end_d)
              f == app_fetch_vessel_track(vessel_id, current_start, current_end,
                                          output_dir, resp, dirs, disk)
              next == NextStart(current_end)
          IN  /\ calls' = calls \o <<FetchCall(vessel_id, current_start, current_end, f)>>
                             \o (IF f.escaped = "none" /\ SleepGuard(next, end_d)
                                 THEN <<SleepCall(AppPacing)>> ELSE << >>)
              /\ response' = IF f.sent THEN resp ELSE NoResponse
              /\ dirs' = f.dirs
              /\ disk' = f.disk
              /\ exc' = f.escaped
              /\ IF f.escaped = "none"
                 THEN /\ all_success' = Aggregate(all_success, f.ret)
                      /\ current_start' = next
                      /\ pc' = "loop"
                 ELSE /\ UNCHANGED << all_success, current_start >>
                      /\ pc' = "crashed"
    /\ UNCHANGED << inputs, batchVars, vessel_id, res >>

DownloadTaskReturn ==
    /\ pc = "loop" /\ entry = "main_logic"
    /\ ~LoopGuard(current_start, end_d)
    /\ res' = all_success
    /\ results' = Append(results, [vessel_id |-> vessel_id, res |-> all_success])
    /\ pc' = "returned"
    /\ UNCHANGED << inputs, fsVars, ids, i, invoked, log_hist, success_files, cooldowns,
                    archive, vessel_id, current_start, all_success, calls, response, exc >>

----------------------------------------------------------------------------
(* download_vessel_track_data of download_api.py *)

ApiEnter ==
    /\ pc = "call" /\ entry = "download_vessel_track_data"
    /\ LET v == validate_dates(start_d, end_d)
           output_dir == get_output_dir_path(vessel_id, temp_root)
       IN  IF ~v.ok
           THEN /\ res' = FALSE
                /\ pc' = "returned"
                /\ UNCHANGED fsVars
           ELSE /\ dirs' = ClearedDirs(dirs, output_dir)
                /\ disk' = ClearedDisk(dirs, disk, output_dir)
                /\ pc' = IF FetchesDirectly(v.days) THEN "direct" ELSE "loop"
                /\ UNCHANGED res
    /\ current_start' = start_d
    /\ all_success' = TRUE
    /\ calls' = << >>
    /\ response' = NoResponse
    /\ UNCHANGED << inputs, batchVars, vessel_id, exc >>

ApiDirect ==
    /\ pc = "direct" /\ entry = "download_vessel_track_data"
    /\ \E resp \in Responses :
          LET output_dir == get_output_dir_path(vessel_id, temp_root)
              f == api_fetch_vessel_track(vessel_id, start_d, end_d,
                                          output_dir, resp, dirs, disk)
          IN  /\ calls' = calls \o <<FetchCall(vessel_id, start_d, end_d, f)>>
              /\ response' = IF f.sent THEN resp ELSE NoResponse
              /\ dirs' = f.dirs
              /\ disk' = f.disk
              /\ exc' = f.escaped
              /\ IF f.escaped = "none"
                 THEN res' = f.ret /\ pc' = "returned"
                 ELSE UNCHANGED res /\ pc' = "crashed"
    /\ UNCHANGED << inputs, batchVars, vessel_id, current_start, all_success >>

ApiIter ==
    /\ pc = "loop" /\ entry = "download_vessel_track_data"
    /\ LoopGuard(current_start, end_d)
    /\ \E resp \in Responses :
          LET output_dir == get_output_dir_path(vessel_id, temp_root)
              current_end == CurrentEnd(current_start, end_d)
              f == api_fetch_vessel_track(vessel_id, current_start, current_end,
                                          output_dir, resp, dirs, disk)
              next == NextStart(current_end)
          IN  /\ calls' = calls \o <<FetchCall(vessel_id, current_start, current_end, f)>>
                             \o (IF f.escaped = "none" /\ SleepGuard(next, end_d)
                                 THEN <<SleepCall(ApiPacing)>> ELSE << >>)
              /\ response' = IF f.sent THEN resp ELSE NoResponse
              /\ dirs' = f.dirs
              /\ disk' = f.disk
              /\ exc' = f.escaped
              /\ IF f.escaped = "none"
                 THEN /\ all_success' = Aggregate(all_success, f.ret)
                      /\ current_start' = next
                      /\ pc' = "loop"
                 ELSE /\ UNCHANGED << all_success, current_start >>
                      /\ pc' = "crashed"
    /\ UNCHANGED << inputs, batchVars, vessel_id, res >>

ApiReturn ==
    /\ pc = "loop" /\ entry = "download_vessel_track_data"
    /\ ~LoopGuard(current_start, end_d)
    /\ res' = all_success
    /\ pc' = "returned"
    /\ UNCHANGED << inputs, batchVars, fsVars, vessel_id, current_start, all_success,
                    calls, response, exc >>

----------------------------------------------------------------------------
(* main_logic of app.py *)

MainLogicStart ==
    /\ pc = "start" /\ entry = "main_logic"
    /\ ids' = ParseIds(raw_txt)
    /\ IF ids' = << >> \/ api_key = ""
       THEN pc' = "rejected" /\ UNCHANGED vessel_id
       ELSE pc' = "call" /\ vessel_id' = ids'[1]
    /\ i' = 0
    /\ log_hist' = << >>
    /\ success_files' = << >>
    /\ UNCHANGED << inputs, taskVars, fsVars, invoked, results, cooldowns, archive >>

\* From the return of download_task to the end of the loop body: the log
\* line, the merge, the cool-down, and the step to the next identifier.
MainLogicRecord ==
    /\ pc = "returned" /\ entry = "main_logic"
    /\ LET target_dir == get_output_dir_path(vessel_id, temp_root)
           wait == Wait(res)
       IN  /\ log_hist' = LogInsert(log_hist, LogLine(vessel_id, res))
           /\ IF Merges(res, target_dir, dirs)
              THEN /\ disk' = Write(disk, final_path(vessel_id), Combined(target_dir, disk))
                   /\ success_files' = Append(success_files, final_path(vessel_id))
              ELSE UNCHANGED << disk, success_files >>
           /\ cooldowns' = IF CoolsDown(i, ids)
                           THEN Append(cooldowns, [after |-> vessel_id, secs |-> wait])
                           ELSE cooldowns
    /\ i' = i + 1
    /\ IF MoreIds(i, ids)
       THEN pc' = "call" /\ vessel_id' = ids[i + 2]
       ELSE pc' = "finish" /\ UNCHANGED vessel_id
    /\ UNCHANGED << inputs, taskVars, dirs, ids, invoked, results, archive >>

\* os.path.basename(final_path)
Basename(path) == path.name.vessel_id \o ".csv"

\* After the loop: the zip of the merged files, if there is any.
MainLogicFinish ==
    /\ pc = "finish" /\ entry = "main_logic"
    /\ archive' = [k \in 1..Len(success_files) |->
                     [name |-> Basename(success_files[k]), data |-> disk[success_files[k]]]]
    /\ pc' = "done"
    /\ UNCHANGED << inputs, taskVars, fsVars, ids, i, vessel_id, invoked, results,
                    log_hist, success_files, cooldowns >>

----------------------------------------------------------------------------

Next ==
    \/ MainLogicStart
    \/ DownloadTaskEnter
    \/ DownloadTaskIter
    \/ DownloadTaskReturn
    \/ MainLogicRecord
    \/ MainLogicFinish
    \/ ApiEnter
    \/ ApiDirect
    \/ ApiIter
    \/ ApiReturn

Spec == Init /\ [][Next]_vars

----------------------------------------------------------------------------
(* The merge on chunks of any content: main_logic from the moment           *)
(* download_task has returned success for the one identifier of the list.  *)

\* What a 200 answer can hold once read by csv.reader: nothing, a header
\* alone, a header and rows, and a blank first line (an empty row) before a
\* data row.
Bodies ==
    { << >>,
      << <<"MMSI", "TIMESTAMP">> >>,
      << <<"MMSI", "TIMESTAMP">>, <<"r1", "t1">> >>,
      << <<"mmsi", "timestamp">>, <<"r2", "t2">>, <<"r3", "t3">> >>,
      << << >>, <<"r4", "t4">> >> }

\* The range whose splitting has n windows, the last one shorter.
RangeEnd(n) == n * (MaxSpan + 1) - 2

\* The windows download_task fetches for the range (0, end_date).
RECURSIVE WindowsOf(_, _)
WindowsOf(cs, end_date) ==
    IF LoopGuard(cs, end_date)
    THEN <<[from_date |-> cs, to_date |-> CurrentEnd(cs, end_date)]>>
             \o WindowsOf(NextStart(CurrentEnd(cs, end_date)), end_date)
    ELSE << >>

ChunkPath(vid, w) ==
    [dir |-> get_output_dir_path(vid, temp_root),
     name |-> app_filename(vid, w.from_date, w.to_date)]

InitMerge ==
    /\ entry = "main_logic"
    /\ api_key = "KEY"
    /\ start_d = 0
    /\ \E n \in 1..MaxChunks, vid \in {"416000000", "9123456"} :
          LET ws == WindowsOf(0, RangeEnd(n))
          IN  /\ end_d = RangeEnd(n)
              /\ raw_txt = <<[text |-> vid, pad |-> 0]>>
              /\ ids = <<vid>>
              /\ vessel_id = vid
              /\ invoked = <<vid>>
              /\ results = <<[vessel_id |-> vid, res |-> TRUE]>>
              /\ current_start = NextStart(RangeEnd(n))
              /\ calls = [k \in 1..(2 * n - 1) |->
                            IF k % 2 = 1
                            THEN [op |-> "fetch", vessel_id |-> vid,
                                  from_date |-> ws[(k + 1) \div 2].from_date,
                                  to_date |-> ws[(k + 1) \div 2].to_date,
                                  id_param |-> app_id_param(vid), sent |-> TRUE, ret |-> TRUE]
                            ELSE SleepCall(AppPacing)]
              /\ dirs = {temp_root, get_output_dir_path(vid, temp_root)}
              /\ \E body \in [1..n -> Bodies] :
                    disk = [p \in {ChunkPath(vid, ws[k]) : k \in 1..n} |->
                              body[CHOOSE k \in 1..n : ChunkPath(vid, ws[k]) = p]]
    /\ pc = "returned"
    /\ i = 0
    /\ all_success = TRUE
    /\ res = TRUE
    /\ response = [error |-> "none", status_code |-> 200]
    /\ exc = "none"
    /\ log_hist = << >>
    /\ success_files = << >>
    /\ cooldowns = << >>
    /\ archive = << >>

NextMerge ==
    \/ MainLogicRecord
    \/ MainLogicFinish

SpecMerge == InitMerge /\ [][NextMerge]_vars

----------------------------------------------------------------------------
(* What the properties below speak about *)

\* The fetches of the running (or just returned) task, in the order issued.
Fetches == SelectSeq(calls, LAMBDA c : c.op = "fetch")

\* The task has just returned: res and calls are those of that run.
TaskReturned == pc = "returned"

Window(from_date, to_date) == [from_date |-> from_date, to_date |-> to_date]

\* The windows the task asked the fetcher for, in the order asked.
FetchedWindows == [k \in 1..Len(Fetches) |-> Window(Fetches[k].from_date, Fetches[k].to_date)]

AllFetchesSucceeded == \A k \in 1..Len(Fetches) : Fetches[k].ret

\* download_vessel_track_data turned the range down before any fetch.
RangeRejected == entry = "download_vessel_track_data" /\ start_d > end_d

\* The windows of a range, from the dates alone: one window for a range
\* that download_vessel_track_data fetches directly, else a window of at most
\* MaxSpan days from each start before end_date, the next start a day after
\* the window's end.
RECURSIVE SplitFrom(_, _)
SplitFrom(cs, end_date) ==
    IF cs < end_date
    THEN <<Window(cs, CurrentEnd(cs, end_date))>>
             \o SplitFrom(NextStart(CurrentEnd(cs, end_date)), end_date)
    ELSE << >>

SplitSequence ==
    IF entry = "download_vessel_track_data" /\ start_d > end_d THEN << >>
    ELSE IF entry = "download_vessel_track_data" /\ end_d - start_d <= MaxSpan
    THEN <<Window(start_d, end_d)>>
    ELSE SplitFrom(start_d, end_d)

----------------------------------------------------------------------------
(* Properties *)

\* C1: for a range with start <= end, the windows a returned task has asked
\* for cover exactly [start, end]: the first starts at start, the last ends
\* at end, and every day of the range lies in some window.
C1_WindowsCoverRange ==
    (TaskReturned /\ start_d <= end_d) =>
        /\ Fetches # << >>
        /\ Fetches[1].from_date = start_d
        /\ Fetches[Len(Fetches)].to_date = end_d
        /\ \A day \in start_d..end_d :
              \E k \in 1..Len(Fetches) :
                  Fetches[k].from_date <= day /\ day <= Fetches[k].to_date

\* C2: when start = end, a returned task has issued exactly one fetch, for
\* the window (start, start).
C2_SingleDayOneFetch ==
    (TaskReturned /\ start_d = end_d) =>
        FetchedWindows = <<Window(start_d, start_d)>>

\* C3: when start > end the task fails: it issues no fetch and does not
\* return success, and main_logic neither logs the vessel as successful nor
\* adds a merged file for it to the archive list.
C3_InvalidRangeFails ==
    start_d > end_d =>
        /\ Fetches = << >>
        /\ TaskReturned => ~res
        /\ \A k \in 1..Len(log_hist) : ~log_hist[k].ok
        /\ success_files = << >>
        /\ archive = << >>

\* C4: every window asked for has start <= end and spans at most 180 days,
\* and each window after the first starts exactly one day after the end of
\* the window before it.
C4_WindowsBoundedContiguous ==
    /\ \A k \in 1..Len(Fetches) :
          /\ Fetches[k].from_date <= Fetches[k].to_date
          /\ Fetches[k].to_date - Fetches[k].from_date <= MaxSpan
    /\ \A k \in 2..Len(Fetches) :
          Fetches[k].from_date = Fetches[k - 1].to_date + 1

C4_Witness ==
    /\ TaskReturned
    /\ Len(Fetches) >= 3
    /\ Fetches[1].to_date - Fetches[1].from_date = MaxSpan

\* C5: for a range with start < end and end - start <= 180, a returned task
\* has issued exactly one fetch, whose window is the whole range.
C5_ShortRangeOneFetch ==
    (TaskReturned /\ start_d < end_d /\ end_d - start_d <= MaxSpan) =>
        FetchedWindows = <<Window(start_d, end_d)>>

C5_Witness ==
    /\ TaskReturned
    /\ entry = "main_logic"
    /\ end_d - start_d = MaxSpan
    /\ FetchedWindows = <<Window(start_d, end_d)>>

\* C6 as stated: the task returns success if and only if every fetch it
\* issued returned success.
C6_SuccessIffAllFetches ==
    TaskReturned => (res <=> AllFetchesSucceeded)

\* C6 as amended: the task returns success if and only if it did not turn
\* the range down and every fetch it issued returned success; a failed
\* fetch makes the result failure whatever its position and whatever the
\* later fetches return.
C6_SuccessIffAcceptedAndAllFetches ==
    TaskReturned => (res <=> (~RangeRejected /\ AllFetchesSucceeded))

C6_Witness ==
    /\ TaskReturned
    /\ Len(Fetches) = 3
    /\ ~Fetches[1].ret /\ Fetches[2].ret /\ Fetches[3].ret
    /\ ~res

\* C7: a returned task has fetched every window of the split sequence
\* exactly once and in chronological order, whatever the fetches returned.
C7_EveryWindowOnceInOrder ==
    TaskReturned =>
        /\ FetchedWindows = SplitSequence
        /\ \A j \in 1..Len(Fetches) : \A k \in 1..Len(Fetches) :
              j < k => Fetches[j].to_date < Fetches[k].from_date

C7_Witness ==
    /\ TaskReturned
    /\ Len(Fetches) = 3
    /\ ~Fetches[1].ret /\ ~Fetches[2].ret /\ Fetches[3].ret
    /\ FetchedWindows = SplitSequence

\* The latest fetch sent a request that ended in a non-success HTTP status
\* or in a transport error.
FetchFailedOnTheWire ==
    /\ response.error # "not_sent"
    /\ \/ response.error # "none"
       \/ response.status_code < 200
       \/ response.status_code > 299

\* C8: a fetch that ends in a non-success HTTP status or a transport error
\* returns False without an exception escaping, and leaves the directories
\* and the files as they were.
C8_FailedFetchReturnsFalseNoWrite ==
    [][(Len(calls') > Len(calls) /\ FetchFailedOnTheWire') =>
          /\ ~Fetches'[Len(Fetches')].ret
          /\ exc' = "none"
          /\ pc' # "crashed"
          /\ disk' = disk
          /\ dirs' = dirs]_vars

C8_Witness ==
    /\ TaskReturned
    /\ Len(Fetches) = 2
    /\ Fetches[1].ret
    /\ ~Fetches[2].ret
    /\ response.error = "ConnectError"

\* C9: a request goes out only for an identifier of length 9, under MMSI,
\* or of length 7, under imo; for any other length no request is sent and
\* the fetch fails.
C9_RequestOnlyForValidIdentifier ==
    \A k \in 1..Len(Fetches) :
        LET c == Fetches[k]
        IN  /\ c.sent => \/ Len(c.vessel_id) = 9 /\ c.id_param = "MMSI"
                         \/ Len(c.vessel_id) = 7 /\ c.id_param = "imo"
            /\ Len(c.vessel_id) \notin {7, 9} => ~c.sent /\ ~c.ret

Recorded == SubSeq(results, 1, Len(log_hist))

\* The merged-file paths of the successful results, in their order.
RECURSIVE SuccessPaths(_)
SuccessPaths(rs) ==
    IF rs = << >> THEN << >>
    ELSE (IF Head(rs).res THEN <<final_path(Head(rs).vessel_id)>> ELSE << >>)
             \o SuccessPaths(Tail(rs))

\* C11: a vessel is merged and its file added to the archive list if and
\* only if its task returned success: success_files lists the merged files
\* of the successful results in input order, a merged file exists only for
\* an identifier with a successful result, and the archive built at the end
\* has one entry per successful result, in input order.
C11_ArchivedIffSuccess ==
    entry = "main_logic" =>
        /\ \A k \in 1..Len(results) : results[k].vessel_id = ids[k]
        /\ success_files = SuccessPaths(Recorded)
        /\ \A v \in Identifiers :
              final_path(v) \in DOMAIN disk =>
                  \E k \in 1..Len(Recorded) : Recorded[k].vessel_id = v /\ Recorded[k].res
        /\ pc = "done" =>
              /\ Len(archive) = Len(SuccessPaths(results))
              /\ \A k \in 1..Len(archive) :
                    /\ archive[k].name = SuccessPaths(results)[k].name.vessel_id \o ".csv"
                    /\ archive[k].data = disk[SuccessPaths(results)[k]]

C11_Witness ==
    /\ pc = "done"
    /\ Len(ids) = 2
    /\ ~results[1].res
    /\ results[2].res
    /\ Len(archive) = 1
    /\ archive[1].name = ids[2] \o ".csv"

\* The coroutine is the only task of the event loop, every await of it ends
\* (a request is answered or fails, a sleep elapses), so a step that is
\* possible is eventually taken.
\* A batch over every text of the identifier box, on a range of no window,
\* one window or two windows.
InitBatch ==
    /\ Init
    /\ entry = "main_logic"
    /\ start_d = 0
    /\ end_d \in {0, 1, MaxSpan + 2}

NextBatch ==
    \/ MainLogicStart
    \/ DownloadTaskEnter
    \/ DownloadTaskIter
    \/ DownloadTaskReturn
    \/ MainLogicRecord
    \/ MainLogicFinish

FairBatchSpec == InitBatch /\ [][NextBatch]_vars /\ WF_vars(NextBatch)

\* One task, of either implementation, over every range: the batch holds at
\* most one identifier and stops when its task has returned.
InitTask ==
    /\ Init
    /\ Len(raw_txt) <= 1

NextTask ==
    \/ MainLogicStart
    \/ DownloadTaskEnter
    \/ DownloadTaskIter
    \/ DownloadTaskReturn
    \/ ApiEnter
    \/ ApiDirect
    \/ ApiIter
    \/ ApiReturn

FairTaskSpec == InitTask /\ [][NextTask]_vars /\ WF_vars(NextTask)

\* C12: a failed vessel never aborts the batch: download_task is invoked
\* for the identifiers in input order, once each, whatever the earlier
\* tasks returned, and a batch that has started reaches completion.
C12_BatchRunsEveryIdentifier ==
    /\ [](entry = "main_logic" => invoked = SubSeq(ids, 1, Len(invoked)))
    /\ [](pc = "done" => invoked = ids)
    /\ ((entry = "main_logic" /\ pc = "call") ~> pc = "done")

C12_Witness ==
    /\ pc = "done"
    /\ Len(ids) = 2
    /\ ~results[1].res
    /\ invoked = ids

\* C13: after each identifier except the last, main_logic pauses before it
\* starts the next one, for success_wait seconds after a success and
\* fail_wait seconds after a failure; after the last there is no pause.
C13_CooldownBetweenIdentifiers ==
    entry = "main_logic" =>
        /\ Len(cooldowns) =
              (IF Len(log_hist) < Len(ids) THEN Len(log_hist)
               ELSE IF Len(ids) = 0 THEN 0 ELSE Len(ids) - 1)
        /\ \A k \in 1..Len(cooldowns) :
              /\ cooldowns[k].after = ids[k]
              /\ cooldowns[k].secs = (IF results[k].res THEN success_wait ELSE fail_wait)
        /\ Len(invoked) <= Len(cooldowns) + 1

C13_Witness ==
    /\ pc = "done"
    /\ Len(ids) = 2
    /\ ~results[1].res
    /\ results[2].res
    /\ Len(cooldowns) = 1
    /\ cooldowns[1].secs = fail_wait

\* The pause between the windows of the running implementation.
Pacing == IF entry = "main_logic" THEN AppPacing ELSE ApiPacing

\* C14: within one run of the task a pacing delay follows a fetch if and
\* only if another fetch follows: fetches and delays alternate, the run
\* ends on a fetch, and the delay is the same whatever the fetch returned.
C14_DelayOnlyBetweenFetches ==
    /\ \A k \in 1..Len(calls) :
          /\ calls[k].op = (IF k % 2 = 1 THEN "fetch" ELSE "sleep")
          /\ calls[k].op = "sleep" => calls[k].secs = Pacing
    /\ TaskReturned => (calls = << >> \/ calls[Len(calls)].op = "fetch")

C14_Witness ==
    /\ TaskReturned
    /\ Len(calls) = 5
    /\ ~calls[1].ret /\ calls[3].ret /\ ~calls[5].ret

\* The directory of the task's vessel holds a chunk file of window w.
ChunkPresent(w) ==
    \E p \in DOMAIN disk :
        /\ p.dir = get_output_dir_path(vessel_id, temp_root)
        /\ p.name.vessel_id = vessel_id
        /\ p.name.from_date = w.from_date
        /\ p.name.to_date = w.to_date

\* C15: when the task returns failure, the chunk file of every window whose
\* fetch succeeded in that run is present in the vessel's directory.
C15_SucceededChunksKept ==
    (TaskReturned /\ ~res) =>
        \A k \in 1..Len(Fetches) : Fetches[k].ret => ChunkPresent(FetchedWindows[k])

C15_Witness ==
    /\ TaskReturned
    /\ ~res
    /\ Len(Fetches) = 3
    /\ Fetches[1].ret /\ ~Fetches[2].ret /\ Fetches[3].ret

\* The windows of the chunk files in the directory of the task's vessel.
ChunkWindows ==
    {Window(n.from_date, n.to_date) :
        n \in Listdir(disk, get_output_dir_path(vessel_id, temp_root))}

SucceededWindows == {FetchedWindows[k] : k \in {j \in 1..Len(Fetches) : Fetches[j].ret}}

\* C17 as stated: after any run of the task the vessel's directory holds
\* exactly the chunk files of the windows fetched successfully in that run,
\* and nothing of an earlier run.
C17_DirectoryIsThisRunsChunks ==
    TaskReturned =>
        /\ ChunkWindows = SucceededWindows
        /\ Cardinality(Listdir(disk, get_output_dir_path(vessel_id, temp_root)))
               = Cardinality(SucceededWindows)

\* C17 as amended: the same, after any run that did not turn the range
\* down (download_vessel_track_data returns for start > end before it
\* clears the directory).
C17_DirectoryIsThisRunsChunksUnlessRejected ==
    (TaskReturned /\ ~RangeRejected) =>
        /\ ChunkWindows = SucceededWindows
        /\ Cardinality(Listdir(disk, get_output_dir_path(vessel_id, temp_root)))
               = Cardinality(SucceededWindows)

\* The second run for one identifier: the first run succeeded, this one
\* failed on its first window, whose chunk of the first run is gone.
C17_Witness ==
    /\ TaskReturned
    /\ Len(invoked) = 2
    /\ invoked[1] = invoked[2]
    /\ results[1].res
    /\ Len(Fetches) = 2
    /\ ~Fetches[1].ret /\ Fetches[2].ret
    /\ ~ChunkPresent(FetchedWindows[1])

\* The text area has no identifier: every line is blank once trimmed.
NoIdentifier == \A k \in 1..Len(raw_txt) : raw_txt[k].text = ""

\* C18: with no identifier or no API key main_logic reports the failure
\* and stops before any per-vessel work: no directory is cleared, no fetch
\* is issued, no result is recorded and no archive is built.
C18_PreconditionFailureStopsBatch ==
    (entry = "main_logic" /\ pc # "start" /\ (NoIdentifier \/ api_key = "")) =>
        /\ pc = "rejected"
        /\ dirs = StaleDirs
        /\ disk = StaleDisk
        /\ calls = << >>
        /\ invoked = << >>
        /\ results = << >>
        /\ log_hist = << >>
        /\ success_files = << >>
        /\ archive = << >>

C18_Witness ==
    /\ pc = "rejected"
    /\ api_key # ""
    /\ Len(raw_txt) = 2

\* The answer of the latest request was a success.
AnsweredOk ==
    /\ response.error = "none"
    /\ response.status_code >= 200
    /\ response.status_code <= 299

\* C19: for an identifier of length 9 or 7 and a range with start < end,
\* both implementations turn the same answer into the same fetch result,
\* ask for the same windows (those of one splitting of the range, whichever
\* implementation runs) and return the conjunction of the fetch results.
C19_ImplementationsAgree ==
    (start_d < end_d /\ Len(vessel_id) \in {7, 9}) =>
        /\ Fetches # << >> =>
              /\ Fetches[Len(Fetches)].sent
              /\ Fetches[Len(Fetches)].ret <=> AnsweredOk
        /\ TaskReturned =>
              /\ FetchedWindows = SplitFrom(start_d, end_d)
              /\ res <=> AllFetchesSucceeded

C19_Witness ==
    /\ TaskReturned
    /\ entry = "download_vessel_track_data"
    /\ end_d - start_d = MaxSpan
    /\ Len(vessel_id) = 7
    /\ FetchedWindows = SplitFrom(start_d, end_d)
    /\ ~res

\* The fetches issued by the window loop (a range that
\* download_vessel_track_data fetches directly does not enter the loop).
LoopFetches ==
    IF entry = "download_vessel_track_data" /\ end_d - start_d <= MaxSpan
    THEN << >> ELSE Fetches

\* One fetch per 181 days of the range, rounded up; none for start >= end.
FetchBound ==
    IF start_d >= end_d THEN 0
    ELSE (end_d - start_d + MaxSpan) \div (MaxSpan + 1)

\* C20: the window loop terminates: every iteration moves current_start
\* strictly forward, the loop never issues more than one fetch per 181 days
\* of the range, rounded up (none when start >= end), and a task in the
\* loop returns.
C20_LoopTerminates ==
    /\ [][(pc = "loop" /\ calls' # calls) => current_start' > current_start]_vars
    /\ [](Len(LoopFetches) <= FetchBound)
    /\ (pc = "loop" ~> pc = "returned")

C20_Witness ==
    /\ TaskReturned
    /\ Len(LoopFetches) = 3
    /\ FetchBound = 3

\* The chunks of the task's vessel in chronological order of their windows,
\* each as the rows csv.reader yields.
ChunkRows ==
    LET ws == WindowsOf(start_d, end_d)
    IN  [k \in 1..Len(ws) |-> disk[ChunkPath(vessel_id, ws[k])]]

\* The rows after the first of every chunk, in chunk order.
RECURSIVE DataRows(_)
DataRows(chunks) ==
    IF chunks = << >> THEN << >>
    ELSE (IF Head(chunks) = << >> THEN << >> ELSE Tail(Head(chunks)))
             \o DataRows(Tail(chunks))

\* The first rows of the chunks that have a row, in chunk order.
RECURSIVE FirstRows(_)
FirstRows(chunks) ==
    IF chunks = << >> THEN << >>
    ELSE (IF Head(chunks) = << >> THEN << >> ELSE <<Head(Head(chunks))>>)
             \o FirstRows(Tail(chunks))

Merged == disk[final_path(vessel_id)]

\* C16 as stated: the merged file is the first row of the first chunk (in
\* chronological order) that has at least one row, then the data rows of
\* every chunk in that order.
C16_HeaderOfFirstChunkWithRows ==
    pc \in {"finish", "done"} =>
        Merged = (IF FirstRows(ChunkRows) = << >> THEN << >>
                  ELSE <<Head(FirstRows(ChunkRows))>>)
                     \o DataRows(ChunkRows)

\* What main_logic writes: the first row of the first chunk whose first row
\* is not empty, if there is one, then the rows after the first of every
\* chunk in chronological order; the archive entry holds the same rows.
MergedAsWritten ==
    pc \in {"finish", "done"} =>
        LET heads == SelectSeq(FirstRows(ChunkRows), LAMBDA h : h # << >>)
        IN  /\ Merged = (IF heads = << >> THEN << >> ELSE <<Head(heads)>>)
                            \o DataRows(ChunkRows)
            /\ pc = "done" => archive = <<[name |-> vessel_id \o ".csv", data |-> Merged]>>

====
